---- MODULE Spec2Model ----
(***************************************************************************)
(* Wallbox eM4 EVSE Modbus driver: EM4ModbusClient of src/em4_modbus.py.   *)
(* The transport (pymodbus) is a black box answering register reads and    *)
(* writes; its answers are chosen nondeterministically from small sets.    *)
(***************************************************************************)
EXTENDS Integers, Sequences, FiniteSets, TLC

(***************************************************************************)
(* Register address constants (em4_modbus.py 70-85), decimal.              *)
(***************************************************************************)
PRODUCT_BASE == 256
OUTLET_BASE == 12288
OUTLET_STRIDE == 256
IRATED_OFFSET == 35
IDEFAULT_OFFSET == 36
CURRENTS_OFFSET == 1
VOLTAGES_OFFSET == 7
POWER_OFFSET == 13
ENERGY_OFFSET == 15
STATUS_OFFSET == 49
ICMAX_OFFSET == 50
IC_OFFSET == 51

\* time.sleep(0.5) and time.sleep(0.2) in set_icmax, in tenths of a second
SETTLE_DELAY == 5
RETRY_PAUSE == 2

WORD == 65536

(***************************************************************************)
(* Python floats.  A float is NaN or a rational num/den; the comparisons   *)
(* are IEEE comparisons: every ordered comparison with NaN is false and    *)
(* NaN != x is true.  The inputs are decimals with at most two places and  *)
(* the device values are raw/10, raw/100, raw/1000, for which float        *)
(* comparison agrees with comparison of the exact rationals.               *)
(***************************************************************************)
Float(n, d) == [nan |-> FALSE, num |-> n, den |-> d]
NaN == [nan |-> TRUE, num |-> 0, den |-> 1]

FEq(a, b) == ~a.nan /\ ~b.nan /\ a.num * b.den = b.num * a.den
FNe(a, b) == ~FEq(a, b)
FLt(a, b) == ~a.nan /\ ~b.nan /\ a.num * b.den < b.num * a.den
FGt(a, b) == FLt(b, a)
FLe(a, b) == ~a.nan /\ ~b.nan /\ a.num * b.den <= b.num * a.den

\* raw / 10.0, raw / 100.0, raw / 1000.0
Div(raw, scale) == Float(raw, scale)

\* round(x): Python 3 rounds half to even
RoundHalfEven(x) ==
    LET q == x.num \div x.den
        r == x.num % x.den
    IN  IF 2 * r < x.den THEN q
        ELSE IF 2 * r > x.den THEN q + 1
        ELSE IF q % 2 = 0 THEN q ELSE q + 1

(***************************************************************************)
(* Bit operations on naturals.                                             *)
(***************************************************************************)
RECURSIVE BitAnd(_, _)
BitAnd(a, b) ==
    IF a = 0 \/ b = 0 THEN 0
    ELSE 2 * BitAnd(a \div 2, b \div 2) + (IF a % 2 = 1 /\ b % 2 = 1 THEN 1 ELSE 0)

RECURSIVE BitOr(_, _)
BitOr(a, b) ==
    IF a = 0 THEN b
    ELSE IF b = 0 THEN a
    ELSE 2 * BitOr(a \div 2, b \div 2) + (IF a % 2 = 1 \/ b % 2 = 1 THEN 1 ELSE 0)

ShiftLeft16(a) == a * WORD

(***************************************************************************)
(* STATUS_CODES (em4_modbus.py 52-68) and the status text of lines 258,305 *)
(***************************************************************************)
STATUS_CODES ==
    [c \in {160, 161, 162, 176, 177, 178, 179, 194, 224, 226} \cup (240..255) |->
        CASE c = 160 -> "Outlet blocked, EV is recognised"
          [] c = 161 -> "Outlet is waiting for EV"
          [] c = 162 -> "Outlet reserved"
          [] c = 176 -> "EV recognised, authentication failed"
          [] c = 177 -> "EV recognised, authentication"
          [] c = 178 -> "Outlet can provide energy for charging"
          [] c = 179 -> "EV has ended or interrupted charging"
          [] c = 194 -> "Outlet provides energy for charging (request by EV)"
          [] c = 224 -> "Outlet blocked, EV is not recognised"
          [] c = 226 -> "Outlet in boot process"
          [] OTHER -> "Error"]

HexDigit(d) ==
    CASE d = 0 -> "0" [] d = 1 -> "1" [] d = 2 -> "2" [] d = 3 -> "3"
      [] d = 4 -> "4" [] d = 5 -> "5" [] d = 6 -> "6" [] d = 7 -> "7"
      [] d = 8 -> "8" [] d = 9 -> "9" [] d = 10 -> "A" [] d = 11 -> "B"
      [] d = 12 -> "C" [] d = 13 -> "D" [] d = 14 -> "E" [] OTHER -> "F"

\* the code formatted without the zero padding to four digits
Hex4_unpadded(code) ==
    IF code < 256 THEN << HexDigit((code \div 16) % 16), HexDigit(code % 16) >>
    ELSE << HexDigit((code \div 256) % 16), HexDigit((code \div 16) % 16), HexDigit(code % 16) >>

\* f"{code:04X}" for a 16-bit code
Hex4(code) ==
    << HexDigit((code \div 4096) % 16), HexDigit((code \div 256) % 16),
       HexDigit((code \div 16) % 16), HexDigit(code % 16) >>

\* STATUS_CODES.get(code, f"Unknown (0x{code:04X})")
StatusText(code) ==
    IF code \in DOMAIN STATUS_CODES
    THEN [known |-> TRUE, text |-> STATUS_CODES[code], hex |-> <<>>]
    ELSE [known |-> FALSE, text |-> "Unknown", hex |-> Hex4(code)]


(***************************************************************************)
(* Inputs: the arguments of the calls and the answers of the transport.    *)
(***************************************************************************)
\* how many registers beyond the requested count a response may carry
MaxExtraRegs == 1
\* the connections left open behind that the model counts
MaxOrphans == 1

\* config.py, line 18
DEFAULT_OUTLET == 1
\* os.name on Windows and elsewhere
OsNames == {"nt", "posix"}

OutletInputs == {-1, 0, 1, 2, 209}

\* -1.0, 0.0, 3.0, 5.9, 6.0, 16.0, 16.05, 20.0, 32.0, 32.1 and float("nan")
AmpsInputs ==
    {NaN} \cup {Float(a, 100) : a \in {-100, 0, 300, 590, 600, 1000, 1600, 1605, 2000, 3200, 3210}}

IratedWords == {320}
IdefaultWords == {160, 320}
\* 0x00A0 0x00A1 0x00B1 0x00C1 0x00C2 0x00E2 0x00F5 0x0099 0x01F0
StatusWords == {160, 161, 177, 193, 194, 226, 245, 153, 496}
IcmaxWords == {160}
IcWords == {0}
ReadbackWords(written) == {0, 100, written}
\* the high word stays below 2^15: TLC integers are 32-bit signed
TripletWords == {<<0, 1, 0, 2, 0, 3>>, <<1, 0, 2, 0, 3, 0>>, <<32767, 65535, 0, 0, 0, 2300>>}
PowerWords == {<<0, 1500>>, <<32767, 65535>>}
EnergyWords == {<<0, 0>>, <<1, 2>>}

Singles(ws) == {<<w>> : w \in ws}

\* what read_holding_registers(address, count) can answer: an error response
\* (or a raised transport exception), or registers: as many as asked, fewer, or more
Responses(count, wellFormed) ==
    {[err |-> TRUE, regs |-> <<>>]}
    \cup {[err |-> FALSE, regs |-> s] : s \in wellFormed}
    \cup {[err |-> FALSE, regs |-> SubSeq(s, 1, count - 1)] : s \in wellFormed}
    \cup {[err |-> FALSE, regs |-> s \o [i \in 1..k |-> 0]] :
            s \in wellFormed, k \in 1..MaxExtraRegs}

(***************************************************************************)
(* The pure parts of EM4ModbusClient.                                      *)
(***************************************************************************)
\* read_u16, line 143: not (result.isError() or not result.registers)
U16Accepted(resp) == ~(resp.err \/ resp.regs = <<>>)
\* read_u32_pair, line 164
U32PairAccepted(resp) == ~(resp.err \/ Len(resp.regs) # 2)
\* read_three_u32, line 188
ThreeU32Accepted(resp) == ~(resp.err \/ Len(resp.regs) # 6)

\* the check of the read function the driver uses for a read of count registers
ReadAccepted(count, resp) ==
    CASE count = 1 -> U16Accepted(resp)
      [] count = 2 -> U32PairAccepted(resp)
      [] OTHER -> ThreeU32Accepted(resp)

\* the two words combined without the shift of the high word
U32_noShift(hi, lo) == BitOr(hi, lo)

\* read_u32_pair, lines 168-169: (hi << 16) | lo
U32(hi, lo) == BitOr(ShiftLeft16(hi), lo)

\* the three values returned in the order L3, L2, L1
ThreeU32_reversed(regs) ==
    << U32(regs[5], regs[6]), U32(regs[3], regs[4]), U32(regs[1], regs[2]) >>

\* read_three_u32, lines 192-196
ThreeU32(regs) == << U32(regs[1], regs[2]), U32(regs[3], regs[4]), U32(regs[5], regs[6]) >>

\* the value a read function returns from an accepted response
ReadValue(count, regs) ==
    CASE count = 1 -> regs[1]
      [] count = 2 -> U32(regs[1], regs[2])
      [] OTHER -> ThreeU32(regs)

\* get_outlet_base with the bound off by one: outlet 0 is let through
OutletRejected_zero(o) == o < 0

\* the base address computed as if outlets were numbered from 0
get_outlet_base_zeroIndexed(o) == OUTLET_BASE + OUTLET_STRIDE * o

\* get_outlet_base, lines 220-222
OutletRejected(o) == o < 1
get_outlet_base(o) == OUTLET_BASE + OUTLET_STRIDE * (o - 1)

\* read_metrics with the two phase reads in the other order
MetricsReads_swapped(base) ==
    << [addr |-> PRODUCT_BASE + IRATED_OFFSET, count |-> 1],
       [addr |-> PRODUCT_BASE + IDEFAULT_OFFSET, count |-> 1],
       [addr |-> base + STATUS_OFFSET, count |-> 1],
       [addr |-> base + ICMAX_OFFSET, count |-> 1],
       [addr |-> base + IC_OFFSET, count |-> 1],
       [addr |-> base + VOLTAGES_OFFSET, count |-> 6],
       [addr |-> base + CURRENTS_OFFSET, count |-> 6],
       [addr |-> base + POWER_OFFSET, count |-> 2],
       [addr |-> base + ENERGY_OFFSET, count |-> 2] >>

\* read_metrics, lines 237-253: the reads in program order
MetricsReads(base) ==
    << [addr |-> PRODUCT_BASE + IRATED_OFFSET, count |-> 1],
       [addr |-> PRODUCT_BASE + IDEFAULT_OFFSET, count |-> 1],
       [addr |-> base + STATUS_OFFSET, count |-> 1],
       [addr |-> base + ICMAX_OFFSET, count |-> 1],
       [addr |-> base + IC_OFFSET, count |-> 1],
       [addr |-> base + CURRENTS_OFFSET, count |-> 6],
       [addr |-> base + VOLTAGES_OFFSET, count |-> 6],
       [addr |-> base + POWER_OFFSET, count |-> 2],
       [addr |-> base + ENERGY_OFFSET, count |-> 2] >>

\* the device words each of the nine reads may return
MetricsWords ==
    << Singles(IratedWords), Singles(IdefaultWords), Singles(StatusWords),
       Singles(IcmaxWords), Singles(IcWords), TripletWords, TripletWords,
       PowerWords, EnergyWords >>

\* the snapshot with the actual and the max current taken from each other's
\* read and the power scaled like the energy
Snapshot_crossed(o, v) ==
    [outlet |-> o,
     status_code |-> v[3],
     status_text |-> StatusText(v[3]),
     ic_amps |-> Div(v[4], 10),
     icmax_amps |-> Div(v[5], 10),
     idefault_amps |-> Div(v[2], 10),
     irated_amps |-> Div(v[1], 10),
     phase_currents |-> << Div(v[6][1], 10), Div(v[6][2], 10), Div(v[6][3], 10) >>,
     phase_voltages |-> << Div(v[7][1], 10), Div(v[7][2], 10), Div(v[7][3], 10) >>,
     power_kw |-> Div(v[8], 100),
     energy_kwh |-> Div(v[9], 100)]

\* read_metrics, lines 255-267; v is the sequence of the nine values read
Snapshot(o, v) ==
    [outlet |-> o,
     status_code |-> v[3],
     status_text |-> StatusText(v[3]),
     ic_amps |-> Div(v[5], 10),
     icmax_amps |-> Div(v[4], 10),
     idefault_amps |-> Div(v[2], 10),
     irated_amps |-> Div(v[1], 10),
     phase_currents |-> << Div(v[6][1], 10), Div(v[6][2], 10), Div(v[6][3], 10) >>,
     phase_voltages |-> << Div(v[7][1], 10), Div(v[7][2], 10), Div(v[7][3], 10) >>,
     power_kw |-> Div(v[8], 1000),
     energy_kwh |-> Div(v[9], 100)]

\* set_icmax, lines 285-288
RangeRejected(a) ==
    \/ FNe(a, Float(0, 1)) /\ FLt(a, Float(6, 1))
    \/ FGt(a, Float(32, 1))

\* the context reads with the outlet's state read before the product limits
ContextReads_stateFirst(base) ==
    << [addr |-> base + STATUS_OFFSET, count |-> 1],
       [addr |-> base + ICMAX_OFFSET, count |-> 1],
       [addr |-> base + IC_OFFSET, count |-> 1],
       [addr |-> PRODUCT_BASE + IRATED_OFFSET, count |-> 1],
       [addr |-> PRODUCT_BASE + IDEFAULT_OFFSET, count |-> 1] >>

\* set_icmax, lines 294-302: the context reads in program order
ContextReads(base) == SubSeq(MetricsReads(base), 1, 5)

\* set_icmax, lines 314-321
Advisory(status) ==
    IF status = 161 THEN "waiting-for-EV"
    ELSE IF status \in {160, 224} THEN "blocked"
    ELSE IF status = 226 THEN "booting"
    ELSE IF BitAnd(status, 240) = 240 THEN "error"
    ELSE "other"

\* the bound check with >= for >
ExceedsLimit_ge(a, idefault_raw) == FLe(Div(idefault_raw, 10), a)

\* the bound check left out
ExceedsLimit_never(a, idefault_raw) == FALSE

\* set_icmax, line 323: amps > idefault_amps
ExceedsLimit(a, idefault_raw) == FGt(a, Div(idefault_raw, 10))

\* set_icmax, line 327: int(round(amps * 10)); round raises ValueError on NaN
EncodeFails(a) == a.nan
Encode(a) == RoundHalfEven(Float(a.num * 10, a.den))

\* the retry taken on any mismatch, whatever the status
NeedsRetry_anyStatus(confirmed_raw, a, status) == FNe(Div(confirmed_raw, 10), a)

\* set_icmax, line 338
ActiveCharging == {177, 178, 193, 194}
NeedsRetry(confirmed_raw, a, status) ==
    FNe(Div(confirmed_raw, 10), a) /\ status \in ActiveCharging

\* the waiting-for-EV message printed for a zero read-back in any status
Outcome_anyStatus(confirmed_raw, a, status) ==
    LET confirmed_amps == Div(confirmed_raw, 10)
    IN  IF FEq(confirmed_amps, a) THEN "Exact"
        ELSE IF FEq(confirmed_amps, Float(0, 1)) /\ FGt(a, Float(0, 1)) THEN "DeferredZero"
        ELSE "Divergent"

\* set_icmax, lines 347-355: which of the three result messages is printed
Outcome(confirmed_raw, a, status) ==
    LET confirmed_amps == Div(confirmed_raw, 10)
    IN  IF FEq(confirmed_amps, a) THEN "Exact"
        ELSE IF FEq(confirmed_amps, Float(0, 1)) /\ FGt(a, Float(0, 1)) /\ status = 161
             THEN "DeferredZero"
        ELSE IF FNe(confirmed_amps, a) THEN "Divergent"
        ELSE "none"

(***************************************************************************)
(* State.                                                                  *)
(***************************************************************************)
VARIABLES
    client,     \* self.client: "None" or "Client"
    pc,         \* where the running call stands; "idle" between calls
    op,         \* the running call: "read_metrics", "set_icmax" or "none"
    outlet,     \* its outlet argument
    amps,       \* its amps argument (set_icmax)
    got,        \* the values its accepted reads returned, in program order
    log,        \* what it asked of the transport, and its sleeps, in order
    miscounted, \* it accepted a response whose register count is not the one asked
    words,      \* the registers its accepted reads used, as the transport gave them
    result,     \* "none" while running, "ok", or the failure it raised
    ret,        \* <<v>> when it returned v, else <<>>
    advisory,   \* the status note set_icmax printed
    outcome,    \* the result message set_icmax printed
    established,    \* the connection of self.client is open
    orphans,        \* connections still open whose handle self.client no longer holds
    connected,      \* EM4Interface.connected
    current_outlet, \* EM4Interface.current_outlet
    os_name,        \* os.name: "nt" or "posix"
    ipc             \* where the interface stands; "none" when the driver is used alone

\* the variables of the interface session
session == << connected, current_outlet, os_name, ipc >>

vars ==
    << client, pc, op, outlet, amps, got, log, miscounted, words, result, ret, advisory, outcome,
       established, orphans, session >>

ReadEntry(rq, ok) == [kind |-> "read", addr |-> rq.addr, count |-> rq.count, value |-> 0, ok |-> ok]
WriteEntry(a, v, ok) == [kind |-> "write", addr |-> a, count |-> 1, value |-> v, ok |-> ok]
SleepEntry(d) == [kind |-> "sleep", addr |-> 0, count |-> 0, value |-> d, ok |-> TRUE]

Init ==
    /\ client = "None"
    /\ pc = "idle"
    /\ op = "none"
    /\ outlet = 0
    /\ amps = Float(0, 1)
    /\ got = <<>>
    /\ log = <<>>
    /\ miscounted = FALSE
    /\ words = <<>>
    /\ result = "none"
    /\ ret = <<>>
    /\ advisory = "none"
    /\ outcome = "none"
    /\ established = FALSE
    /\ orphans = 0
    /\ connected = FALSE
    /\ current_outlet = DEFAULT_OUTLET
    /\ os_name \in OsNames
    /\ ipc = "none"

\* connect, lines 94-124: self.client is assigned (line 112) before the connection
\* is tried (line 121), so the handle is kept whether or not connect() succeeds.
\* The handle it replaces is not closed: its connection stays open unless the
\* runtime closes it when the object is dropped.
connect ==
    /\ pc = "idle"
    /\ \E ok \in BOOLEAN, dropped \in BOOLEAN :
          /\ client' = "Client"
          /\ established' = ok
          /\ IF client = "Client" /\ established /\ ~dropped
             THEN orphans < MaxOrphans /\ orphans' = orphans + 1
             ELSE orphans' = orphans
    /\ UNCHANGED << pc, op, outlet, amps, got, log, miscounted, words, result, ret, advisory, outcome >>

\* disconnect, lines 359-363
disconnect ==
    /\ pc = "idle"
    /\ client' = "None"
    /\ established' = FALSE
    /\ UNCHANGED << pc, op, outlet, amps, got, log, miscounted, words, result, ret, advisory, outcome,
                    orphans >>

\* the failure is noted but the call goes on
Raise_swallowed(kind) ==
    /\ result' = kind
    /\ ret' = <<>>
    /\ pc' = pc

\* the call raises: nothing is returned
Raise(kind) ==
    /\ result' = kind
    /\ ret' = <<>>
    /\ pc' = "done"

\* read_u16 / read_u32_pair / read_three_u32 raise: the guard on self.client
\* (lines 128, 149, 173) or the check of the response (lines 143, 164, 188)
ReadFails(rq, resp) == client = "None" \/ ~ReadAccepted(rq.count, resp)

\* the read raises; without a client the transport is not called at all
ReadFailure(rq) ==
    /\ log' = IF client = "None" THEN log ELSE Append(log, ReadEntry(rq, FALSE))
    /\ Raise("CommunicationFailure")
    /\ UNCHANGED << got, miscounted, words, advisory, outcome >>

\* the read returns ReadValue(rq.count, resp.regs)
ReadSuccess(rq, resp) ==
    /\ miscounted' = (miscounted \/ Len(resp.regs) # rq.count)
    /\ words' = Append(words, SubSeq(resp.regs, 1, rq.count))

\* read_metrics, line 234
read_metrics_call ==
    /\ pc = "idle"
    /\ \E o \in OutletInputs :
        /\ op' = "read_metrics"
        /\ outlet' = o
        /\ amps' = Float(0, 1)
        /\ IF OutletRejected(o)
           THEN Raise("InvalidOutlet")
           ELSE pc' = "reading" /\ result' = "none" /\ ret' = <<>>
    /\ got' = <<>>
    /\ log' = <<>>
    /\ miscounted' = FALSE
    /\ words' = <<>>
    /\ advisory' = "none"
    /\ outcome' = "none"
    /\ UNCHANGED << client, established, orphans >>

ReadMetricsNext(v) ==
    LET rq == MetricsReads(get_outlet_base(outlet))[Len(got) + 1]
        vs == Append(got, v)
    IN  /\ got' = vs
        /\ log' = Append(log, ReadEntry(rq, TRUE))
        /\ IF Len(vs) = 9
           THEN result' = "ok" /\ ret' = << Snapshot(outlet, vs) >> /\ pc' = "done"
           ELSE UNCHANGED << result, ret, pc >>
        /\ UNCHANGED << advisory, outcome >>

\* read_metrics, lines 237-267: the next of the nine reads; the last one
\* builds and returns the snapshot
read_metrics_read ==
    /\ pc = "reading"
    /\ LET i == Len(got) + 1
           rq == MetricsReads(get_outlet_base(outlet))[i]
       IN  \E resp \in Responses(rq.count, MetricsWords[i]) :
              IF ReadFails(rq, resp)
              THEN ReadFailure(rq)
              ELSE ReadSuccess(rq, resp) /\ ReadMetricsNext(ReadValue(rq.count, resp.regs))
    /\ UNCHANGED << client, established, orphans, op, outlet, amps >>

\* set_icmax locals, once read
idefault_raw == got[2]
status_raw == got[3]
icmax_raw == Encode(amps)

\* the words the five context reads may return
ContextWords ==
    << Singles(IratedWords), Singles(IdefaultWords), Singles(StatusWords),
       Singles(IcmaxWords), Singles(IcWords) >>

\* set_icmax, lines 285-291: range validation, then the outlet base
set_icmax_call ==
    /\ pc = "idle"
    /\ \E o \in OutletInputs, a \in AmpsInputs :
        /\ op' = "set_icmax"
        /\ outlet' = o
        /\ amps' = a
        /\ IF RangeRejected(a)
           THEN Raise("OutOfRange")
           ELSE IF OutletRejected(o)
           THEN Raise("InvalidOutlet")
           ELSE pc' = "context" /\ result' = "none" /\ ret' = <<>>
    /\ got' = <<>>
    /\ log' = <<>>
    /\ miscounted' = FALSE
    /\ words' = <<>>
    /\ advisory' = "none"
    /\ outcome' = "none"
    /\ UNCHANGED << client, established, orphans >>

\* set_icmax, lines 305-327, after the fifth context read: the status note,
\* the bound check, the conversion to device units
ContextNext(v) ==
    LET rq == ContextReads(get_outlet_base(outlet))[Len(got) + 1]
        vs == Append(got, v)
    IN  /\ got' = vs
        /\ log' = Append(log, ReadEntry(rq, TRUE))
        /\ IF Len(vs) = 5
           THEN /\ advisory' = Advisory(vs[3])
                /\ IF ExceedsLimit(amps, vs[2])
                   THEN Raise("ExceedsInstallationLimit")
                   ELSE IF EncodeFails(amps)
                   THEN Raise("ValueError")
                   ELSE pc' = "write" /\ UNCHANGED << result, ret >>
           ELSE UNCHANGED << advisory, result, ret, pc >>
        /\ UNCHANGED outcome

\* set_icmax, lines 294-302: the next of the five context reads
set_icmax_context ==
    /\ pc = "context"
    /\ LET i == Len(got) + 1
           rq == ContextReads(get_outlet_base(outlet))[i]
       IN  \E resp \in Responses(rq.count, ContextWords[i]) :
              IF ReadFails(rq, resp)
              THEN ReadFailure(rq)
              ELSE ReadSuccess(rq, resp) /\ ContextNext(ReadValue(rq.count, resp.regs))
    /\ UNCHANGED << client, established, orphans, op, outlet, amps >>

\* the write with no settle sleep after it
WriteRegister_noSettle(addr, value, nextpc) ==
    IF client = "None"
    THEN /\ Raise("CommunicationFailure")
         /\ UNCHANGED log
    ELSE \E ok \in BOOLEAN :
            IF ok
            THEN /\ log' = Append(log, WriteEntry(addr, value, TRUE))
                 /\ pc' = nextpc
                 /\ UNCHANGED << result, ret >>
            ELSE /\ log' = Append(log, WriteEntry(addr, value, FALSE))
                 /\ Raise("CommunicationFailure")

\* write_u16, lines 198-216, and the settle sleep that follows it in set_icmax
WriteRegister(addr, value, nextpc) ==
    IF client = "None"
    THEN /\ Raise("CommunicationFailure")
         /\ UNCHANGED log
    ELSE \E ok \in BOOLEAN :
            IF ok
            THEN /\ log' = log \o << WriteEntry(addr, value, TRUE), SleepEntry(SETTLE_DELAY) >>
                 /\ pc' = nextpc
                 /\ UNCHANGED << result, ret >>
            ELSE /\ log' = Append(log, WriteEntry(addr, value, FALSE))
                 /\ Raise("CommunicationFailure")

\* set_icmax, lines 330-333
set_icmax_write ==
    /\ pc = "write"
    /\ WriteRegister(get_outlet_base(outlet) + ICMAX_OFFSET, icmax_raw, "readback")
    /\ UNCHANGED << client, established, orphans, op, outlet, amps, got, miscounted, words, advisory, outcome >>

\* set_icmax, lines 346-357: the result message and the return
Finish(confirmed_raw) ==
    /\ outcome' = Outcome(confirmed_raw, amps, status_raw)
    /\ result' = "ok"
    /\ ret' = << Div(confirmed_raw, 10) >>
    /\ pc' = "done"

IcmaxRead == [addr |-> get_outlet_base(outlet) + ICMAX_OFFSET, count |-> 1]

\* set_icmax, lines 335-340 after the first read-back
ReadbackNext(v) ==
    /\ got' = Append(got, v)
    /\ IF NeedsRetry(v, amps, status_raw)
       THEN /\ log' = log \o << ReadEntry(IcmaxRead, TRUE), SleepEntry(RETRY_PAUSE) >>
            /\ pc' = "retry_write"
            /\ UNCHANGED << result, ret, outcome >>
       ELSE /\ log' = Append(log, ReadEntry(IcmaxRead, TRUE))
            /\ Finish(v)
    /\ UNCHANGED advisory

\* set_icmax, lines 334-340
set_icmax_readback ==
    /\ pc = "readback"
    /\ \E resp \in Responses(1, Singles(ReadbackWords(icmax_raw))) :
          IF ReadFails(IcmaxRead, resp)
          THEN ReadFailure(IcmaxRead)
          ELSE ReadSuccess(IcmaxRead, resp) /\ ReadbackNext(ReadValue(1, resp.regs))
    /\ UNCHANGED << client, established, orphans, op, outlet, amps >>

\* the retry writing the register next to the max-current register
set_icmax_retry_write_neighbour ==
    /\ pc = "retry_write"
    /\ WriteRegister(get_outlet_base(outlet) + IC_OFFSET, icmax_raw, "retry_readback")
    /\ UNCHANGED << client, established, orphans, op, outlet, amps, got, miscounted, words, advisory, outcome >>

\* set_icmax, lines 341-342
set_icmax_retry_write ==
    /\ pc = "retry_write"
    /\ WriteRegister(get_outlet_base(outlet) + ICMAX_OFFSET, icmax_raw, "retry_readback")
    /\ UNCHANGED << client, established, orphans, op, outlet, amps, got, miscounted, words, advisory, outcome >>

RetryNext(v) ==
    /\ got' = Append(got, v)
    /\ log' = Append(log, ReadEntry(IcmaxRead, TRUE))
    /\ Finish(v)
    /\ UNCHANGED advisory

\* set_icmax, lines 343-357
set_icmax_retry_readback ==
    /\ pc = "retry_readback"
    /\ \E resp \in Responses(1, Singles(ReadbackWords(icmax_raw))) :
          IF ReadFails(IcmaxRead, resp)
          THEN ReadFailure(IcmaxRead)
          ELSE ReadSuccess(IcmaxRead, resp) /\ RetryNext(ReadValue(1, resp.regs))
    /\ UNCHANGED << client, established, orphans, op, outlet, amps >>

\* the caller has the result (or the exception) of the call
return ==
    /\ pc = "done"
    /\ pc' = "idle"
    /\ op' = "none"
    /\ outlet' = 0
    /\ amps' = Float(0, 1)
    /\ got' = <<>>
    /\ log' = <<>>
    /\ miscounted' = FALSE
    /\ words' = <<>>
    /\ result' = "none"
    /\ ret' = <<>>
    /\ advisory' = "none"
    /\ outcome' = "none"
    /\ UNCHANGED << client, established, orphans >>

\* the driver used on its own: the calls of EM4ModbusClient in any order
Next ==
    \/ connect /\ UNCHANGED session
    \/ disconnect /\ UNCHANGED session
    \/ read_metrics_call /\ UNCHANGED session
    \/ read_metrics_read /\ UNCHANGED session
    \/ set_icmax_call /\ UNCHANGED session
    \/ set_icmax_context /\ UNCHANGED session
    \/ set_icmax_write /\ UNCHANGED session
    \/ set_icmax_readback /\ UNCHANGED session
    \/ set_icmax_retry_write /\ UNCHANGED session
    \/ set_icmax_retry_readback /\ UNCHANGED session
    \/ return /\ UNCHANGED session

Spec == Init /\ [][Next]_vars

\* set_icmax, lines 294-344: the next transport operation of the running call
set_icmax_step ==
    \/ set_icmax_context
    \/ set_icmax_write
    \/ set_icmax_readback
    \/ set_icmax_retry_write
    \/ set_icmax_retry_readback

\* set_icmax is straight-line synchronous code: every transport operation
\* returns or raises and every sleep ends, so a running call takes its next
\* step
LiveSpec == Spec /\ WF_vars(set_icmax_step /\ UNCHANGED session)

(***************************************************************************)
(* The interactive interface, em4_interface.py: one EM4Interface session   *)
(* driving the client.  ipc is "run" before the first connection attempt,  *)
(* "menu" at the prompt, "monitor" while the live monitor polls, "keys"    *)
(* where it looks for a key, "quick" in a quick set, "set" in the menu's   *)
(* set action and "exited" after the cleanup.                              *)
(***************************************************************************)
driver ==
    << client, pc, op, outlet, amps, got, log, miscounted, words, result, ret, advisory, outcome,
       established, orphans >>

\* EM4Interface.__init__, lines 33-38, followed by run
InterfaceInit ==
    /\ client = "None"
    /\ pc = "idle"
    /\ op = "none"
    /\ outlet = 0
    /\ amps = Float(0, 1)
    /\ got = <<>>
    /\ log = <<>>
    /\ miscounted = FALSE
    /\ words = <<>>
    /\ result = "none"
    /\ ret = <<>>
    /\ advisory = "none"
    /\ outcome = "none"
    /\ established = FALSE
    /\ orphans = 0
    /\ connected = FALSE
    /\ current_outlet = DEFAULT_OUTLET
    /\ os_name \in OsNames
    /\ ipc = "run"

\* connect_to_device, lines 67-78: at the start of run and on menu option 5
connect_to_device ==
    /\ ipc \in {"run", "menu"}
    /\ connect
    /\ connected' = established'
    /\ ipc' = "menu"
    /\ UNCHANGED << current_outlet, os_name >>

\* read_metrics of the interface, lines 80-83 and 89-100: menu option 1 when connected
menu_read_metrics ==
    /\ ipc = "menu"
    /\ connected
    /\ ipc' = "monitor"
    /\ UNCHANGED << driver, connected, current_outlet, os_name >>

\* line 104: the monitor calls client.read_metrics(self.current_outlet)
monitor_poll ==
    /\ ipc = "monitor"
    /\ read_metrics_call
    /\ outlet' = current_outlet
    /\ UNCHANGED session

monitor_read ==
    /\ ipc = "monitor"
    /\ read_metrics_read
    /\ UNCHANGED session

\* lines 104-113 and 154-157: the call returned, or it raised and the monitor
\* clears the flag and stops
monitor_done ==
    /\ ipc = "monitor"
    /\ return
    /\ IF result = "ok"
       THEN ipc' = "keys" /\ UNCHANGED connected
       ELSE ipc' = "menu" /\ connected' = FALSE
    /\ UNCHANGED << current_outlet, os_name >>

\* the keys the monitor distinguishes; "" is no key pressed
Keys == {"", "q", "0", "1", "2", "3", "4", "x"}

\* lines 125-134 (and 144-153): the amps of the quick controls
QuickAmps(key) ==
    CASE key = "0" -> Float(0, 100)
      [] key = "1" -> Float(600, 100)
      [] key = "2" -> Float(1000, 100)
      [] key = "3" -> Float(2000, 100)
      [] key = "4" -> Float(3200, 100)

\* lines 116-153: `import msvcrt` (line 116) runs on every platform before the
\* test of os.name, and raises where the module does not exist; the handler
\* of line 154 takes it like a failed read
monitor_keys ==
    /\ ipc = "keys"
    /\ IF os_name # "nt"
       THEN /\ connected' = FALSE
            /\ ipc' = "menu"
            /\ UNCHANGED driver
       ELSE \E key \in Keys :
               IF key = "q"
               THEN ipc' = "menu" /\ UNCHANGED << driver, connected >>
               ELSE IF key \in {"", "x"}
               THEN ipc' = "monitor" /\ UNCHANGED << driver, connected >>
               ELSE /\ set_icmax_call
                    /\ outlet' = current_outlet
                    /\ amps' = QuickAmps(key)
                    /\ ipc' = "quick"
                    /\ UNCHANGED connected
    /\ UNCHANGED << current_outlet, os_name >>

\* quick_set_icmax, lines 164-177: the call runs to its end
quick_set_icmax_step ==
    /\ ipc = "quick"
    /\ set_icmax_step
    /\ UNCHANGED session

\* the monitor going on while the quick set is still running
quick_set_icmax_done_detached ==
    /\ ipc = "quick"
    /\ ipc' = "monitor"
    /\ UNCHANGED << driver, connected, current_outlet, os_name >>

\* quick_set_icmax, lines 168-177: every outcome is printed and the monitor goes on
quick_set_icmax_done ==
    /\ ipc = "quick"
    /\ return
    /\ ipc' = "monitor"
    /\ UNCHANGED << connected, current_outlet, os_name >>

\* set_icmax of the interface, lines 264-287: menu option 2 when connected,
\* with the number typed at the prompt
menu_set_icmax ==
    /\ ipc = "menu"
    /\ connected
    /\ set_icmax_call
    /\ outlet' = current_outlet
    /\ ipc' = "set"
    /\ UNCHANGED << connected, current_outlet, os_name >>

menu_set_icmax_step ==
    /\ ipc = "set"
    /\ set_icmax_step
    /\ UNCHANGED session

\* the failures of client.set_icmax that are a Python ValueError (em4_modbus.py
\* lines 221, 286, 288, 324 and the conversion of line 327)
ValueErrors == {"InvalidOutlet", "OutOfRange", "ExceedsInstallationLimit", "ValueError"}

\* every exception of the call taken by the one handler that clears the flag
menu_set_icmax_done_oneHandler ==
    /\ ipc = "set"
    /\ return
    /\ connected' = (IF result = "ok" THEN connected ELSE FALSE)
    /\ ipc' = "menu"
    /\ UNCHANGED << current_outlet, os_name >>

\* lines 287-294: the value is printed, a ValueError is printed, any other
\* exception clears the flag
menu_set_icmax_done ==
    /\ ipc = "set"
    /\ return
    /\ connected' = (IF result = "ok" \/ result \in ValueErrors THEN connected ELSE FALSE)
    /\ ipc' = "menu"
    /\ UNCHANGED << current_outlet, os_name >>

\* change_outlet, lines 296-317: only an outlet below 1 is asked again
change_outlet ==
    /\ ipc = "menu"
    /\ \E o \in OutletInputs : ~(o < 1) /\ current_outlet' = o
    /\ UNCHANGED << driver, connected, os_name, ipc >>

\* change_ip, lines 319-332: the flag is cleared, the client is left as it is
change_ip ==
    /\ ipc = "menu"
    /\ connected' = FALSE
    /\ UNCHANGED << driver, current_outlet, os_name, ipc >>

\* run, lines 377-379 and 394-413: option 0 or an interrupt at the prompt, then
\* the cleanup
run_exit ==
    /\ ipc = "menu"
    /\ ipc' = "exited"
    /\ IF connected THEN disconnect ELSE UNCHANGED driver
    /\ UNCHANGED << connected, current_outlet, os_name >>

InterfaceNext ==
    \/ connect_to_device
    \/ menu_read_metrics
    \/ monitor_poll
    \/ monitor_read
    \/ monitor_done
    \/ monitor_keys
    \/ quick_set_icmax_step
    \/ quick_set_icmax_done
    \/ menu_set_icmax
    \/ menu_set_icmax_step
    \/ menu_set_icmax_done
    \/ change_outlet
    \/ change_ip
    \/ run_exit

InterfaceSpec == InterfaceInit /\ [][InterfaceNext]_vars

(***************************************************************************)
(* Observations on the running call, used by the properties below.         *)
(***************************************************************************)
Kinds(l, k) == SelectSeq(l, LAMBDA e : e.kind = k)
NumWrites == Len(Kinds(log, "write"))
NumReads == Len(Kinds(log, "read"))
\* the transport operations of the call, sleeps left out
IO == SelectSeq(log, LAMBDA e : e.kind # "sleep")
\* the reads issued after a write: the read-backs
ReadBackIdx ==
    {i \in DOMAIN log : log[i].kind = "read" /\ \E j \in 1..(i - 1) : log[j].kind = "write"}
\* amps == 0.0 or 6.0 <= amps <= 32.0
InRange(a) == FEq(a, Float(0, 1)) \/ (FLe(Float(6, 1), a) /\ FLe(a, Float(32, 1)))

(***************************************************************************)
(* C1: set_icmax fails with OutOfRange, before any transport read or       *)
(* write, for every amps that is neither 0.0 nor within [6.0, 32.0], for   *)
(* every outlet.                                                           *)
(***************************************************************************)
C1_OutOfRangeBeforeIO ==
    (op = "set_icmax" /\ ~InRange(amps)) => (result = "OutOfRange" /\ IO = <<>>)

(***************************************************************************)
(* C2: once the context is read, amps above the installation default limit *)
(* read in this call fails with ExceedsInstallationLimit and no write is   *)
(* issued; amps at or below it (equal included) goes on to the write.      *)
(***************************************************************************)
C2_BoundCheck ==
    (op = "set_icmax" /\ Len(got) >= 5) =>
        /\ FGt(amps, Float(got[2], 10)) =>
              (result = "ExceedsInstallationLimit" /\ NumWrites = 0 /\ pc = "done")
        /\ FLe(amps, Float(got[2], 10)) =>
              (result # "ExceedsInstallationLimit" /\ (pc = "write" \/ NumWrites >= 1))

C2_Witness ==
    /\ op = "set_icmax" /\ Len(got) >= 5
    /\ amps = Float(1600, 100) /\ got[2] = 160
    /\ NumWrites = 1

(***************************************************************************)
(* C3: the second write + settle + read-back cycle happens exactly when    *)
(* the first read-back differs from amps and the pre-write status is one   *)
(* of 0x00B1, 0x00B2, 0x00C1, 0x00C2; otherwise a completed call made one  *)
(* write and one read-back; never more than two of either.                 *)
(***************************************************************************)
C3_RetryIffMismatchWhileCharging ==
    op = "set_icmax" =>
        /\ NumWrites <= 2
        /\ Cardinality(ReadBackIdx) <= 2
        /\ Len(got) < 6 => NumWrites <= 1
        /\ Len(got) >= 6 =>
            LET retry == FNe(Float(got[6], 10), amps) /\ got[3] \in {177, 178, 193, 194}
            IN  /\ (pc = "retry_write" \/ NumWrites = 2) <=> retry
                /\ result = "ok" =>
                      IF retry THEN NumWrites = 2 /\ Cardinality(ReadBackIdx) = 2
                               ELSE NumWrites = 1 /\ Cardinality(ReadBackIdx) = 1

C3_Witness ==
    /\ op = "set_icmax" /\ result = "ok"
    /\ got[3] = 194 /\ NumWrites = 2 /\ Cardinality(ReadBackIdx) = 2
    /\ got[6] = 0 /\ got[7] = 160 /\ amps = Float(1600, 100)

(***************************************************************************)
(* C4: a set_icmax call that was not rejected by the range validation, the *)
(* outlet check or the bound check and met no transport failure completes  *)
(* successfully and returns the last read-back divided by 10.              *)
(***************************************************************************)
C4_CompletesWithLastReadBack ==
    (/\ op = "set_icmax" /\ pc = "done"
     /\ result \notin {"OutOfRange", "InvalidOutlet", "ExceedsInstallationLimit",
                       "CommunicationFailure"}) =>
        /\ result = "ok"
        /\ Len(got) >= 6
        /\ ret = << Float(got[Len(got)], 10) >>

(***************************************************************************)
(* C5 as stated: a successful set_icmax returns, with the confirmed value, *)
(* one outcome tag (Exact, DeferredZero or Divergent).                     *)
(***************************************************************************)
C5_ReturnsOutcomeTag ==
    (op = "set_icmax" /\ result = "ok") =>
        (Len(ret) = 2 /\ ret[2] \in {"Exact", "DeferredZero", "Divergent"})

(***************************************************************************)
(* C5 as amended: a successful set_icmax returns the confirmed value alone *)
(* and prints exactly one of three result messages: Exact iff confirmed == *)
(* amps; DeferredZero iff confirmed == 0, amps > 0 and the pre-write       *)
(* status is 0x00A1; Divergent for every other mismatch.                   *)
(***************************************************************************)
C5_OutcomeMessage ==
    op = "set_icmax" =>
        IF result = "ok"
        THEN LET c == got[Len(got)]
                 exact == c * amps.den = amps.num * 10
                 deferred == c = 0 /\ amps.num > 0 /\ got[3] = 161
             IN  /\ ret = << Float(c, 10) >>
                 /\ outcome \in {"Exact", "DeferredZero", "Divergent"}
                 /\ outcome = "Exact" <=> exact
                 /\ outcome = "DeferredZero" <=> deferred
                 /\ outcome = "Divergent" <=> (~exact /\ ~deferred)
                 /\ ~(exact /\ deferred)
        ELSE outcome = "none"

C5_Witness ==
    /\ op = "set_icmax" /\ result = "ok"
    /\ amps = Float(1600, 100) /\ got[3] = 161 /\ got[6] = 0
    /\ outcome = "DeferredZero" /\ NumWrites = 1

(***************************************************************************)
(* C6: read_metrics is all-or-nothing: a failed read ends the call with    *)
(* CommunicationFailure, no snapshot and no further read; a snapshot is    *)
(* returned only after nine accepted reads.                                *)
(***************************************************************************)
C6_AllOrNothing ==
    op = "read_metrics" =>
        /\ \A k \in DOMAIN log :
              ~log[k].ok => (k = Len(log) /\ result = "CommunicationFailure" /\ ret = <<>>)
        /\ (ret # <<>>) =>
              (result = "ok" /\ Len(log) = 9 /\ \A k \in DOMAIN log : log[k].ok)
        /\ result = "ok" <=> ret # <<>>
        /\ result = "CommunicationFailure" => (pc = "done" /\ Len(log) <= 9)

C6_Witness ==
    /\ op = "read_metrics" /\ result = "CommunicationFailure"
    /\ Len(log) = 4 /\ ~log[4].ok /\ ret = <<>>

(***************************************************************************)
(* C7: a successful read_metrics issued exactly these nine reads, once     *)
(* each and in this order, and no write: 0x0123 (1), 0x0124 (1), base+0x31 *)
(* (1), base+0x32 (1), base+0x33 (1), base+0x01 (6), base+0x07 (6),        *)
(* base+0x0D (2), base+0x0F (2), base = 0x3000 + 0x100*(outlet-1).         *)
(***************************************************************************)
C7_Expected(o) ==
    LET base == 12288 + 256 * (o - 1)
    IN  << <<291, 1>>, <<292, 1>>, <<base + 49, 1>>, <<base + 50, 1>>, <<base + 51, 1>>,
           <<base + 1, 6>>, <<base + 7, 6>>, <<base + 13, 2>>, <<base + 15, 2>> >>

C7_NineReadsInOrder ==
    op = "read_metrics" =>
        /\ Len(log) <= 9
        /\ \A i \in DOMAIN log :
              log[i].kind = "read" /\ << log[i].addr, log[i].count >> = C7_Expected(outlet)[i]
        /\ result = "ok" => Len(log) = 9

C7_Witness ==
    /\ op = "read_metrics" /\ result = "ok" /\ outlet = 2
    /\ Len(log) = 9 /\ log[6].addr = 12545 /\ log[9].count = 2

(***************************************************************************)
(* C8: a read is accepted only when the response carries exactly the       *)
(* number of registers asked for, single-register reads included.          *)
(***************************************************************************)
C8_ExactRegisterCount == ~miscounted

(***************************************************************************)
(* C9: every value written to the max-current register is round(amps*10),  *)
(* is 0 or within 60..320, and is not above the raw installation default   *)
(* limit read in the same call.                                            *)
(***************************************************************************)
C9_WrittenValue ==
    \A i \in DOMAIN log :
        log[i].kind = "write" =>
            LET v == log[i].value
            IN  /\ ~amps.nan
                /\ 2 * (v * amps.den - amps.num * 10) <= amps.den
                /\ 2 * (amps.num * 10 - v * amps.den) <= amps.den
                /\ v = 0 \/ (60 <= v /\ v <= 320)
                /\ Len(got) >= 5 /\ v <= got[2]

C9_Witness ==
    /\ op = "set_icmax" /\ amps = Float(1605, 100) /\ NumWrites = 2
    /\ \A i \in DOMAIN log : log[i].kind = "write" => log[i].value = 160

(***************************************************************************)
(* C10 as stated: for outlet < 1 read_metrics and set_icmax fail with      *)
(* InvalidOutlet before any transport read or write.                       *)
(***************************************************************************)
C10_InvalidOutletBeforeIO ==
    (op \in {"read_metrics", "set_icmax"} /\ outlet < 1) =>
        (result = "InvalidOutlet" /\ IO = <<>>)

(***************************************************************************)
(* C10 as amended: for outlet < 1 no transport read or write is issued;    *)
(* read_metrics fails with InvalidOutlet; set_icmax fails with OutOfRange  *)
(* when amps is non-zero and below 6.0 or is above 32.0, and with          *)
(* InvalidOutlet otherwise.                                                *)
(***************************************************************************)
C10_NoIOForInvalidOutlet ==
    (op \in {"read_metrics", "set_icmax"} /\ outlet < 1) =>
        /\ IO = <<>> /\ pc = "done" /\ ret = <<>>
        /\ result =
             IF /\ op = "set_icmax"
                /\ ~amps.nan
                /\ \/ (amps.num # 0 /\ amps.num < 6 * amps.den)
                   \/ amps.num > 32 * amps.den
             THEN "OutOfRange"
             ELSE "InvalidOutlet"

C10_Witness ==
    /\ op = "set_icmax" /\ outlet = 0 /\ amps = Float(1600, 100)
    /\ result = "InvalidOutlet" /\ client = "Client"

(***************************************************************************)
(* C11: the status note never blocks the write: whatever the pre-write     *)
(* status, a set_icmax call that passed the range validation, the context  *)
(* read and the bound check issues the write.                              *)
(***************************************************************************)
C11_WriteInEveryStatus ==
    (op = "set_icmax" /\ Len(got) >= 5 /\ result # "ExceedsInstallationLimit") =>
        (pc = "write" \/ NumWrites >= 1)

(***************************************************************************)
(* C12: the status is noted as an error exactly for the codes 0x00F0 ..    *)
(* 0x00FF, which are exactly the codes whose status text is the error      *)
(* text; no code outside that range is noted as an error.                  *)
(***************************************************************************)
C12_ErrorRangeOnly ==
    (op = "set_icmax" /\ Len(got) >= 5) =>
        /\ advisory = "error" <=> got[3] \in 240..255
        /\ got[3] \in 240..255 <=> StatusText(got[3]).text = "Error"

(***************************************************************************)
(* C13: the status text is total: a code of the status table gets its      *)
(* table text, any other code gets the "Unknown" text with the code as     *)
(* four hex digits, and the lookup never fails the call.                   *)
(***************************************************************************)
C13_TableText(c) ==
    CASE c = 160 -> "Outlet blocked, EV is recognised"
      [] c = 161 -> "Outlet is waiting for EV"
      [] c = 162 -> "Outlet reserved"
      [] c = 176 -> "EV recognised, authentication failed"
      [] c = 177 -> "EV recognised, authentication"
      [] c = 178 -> "Outlet can provide energy for charging"
      [] c = 179 -> "EV has ended or interrupted charging"
      [] c = 194 -> "Outlet provides energy for charging (request by EV)"
      [] c = 224 -> "Outlet blocked, EV is not recognised"
      [] c = 226 -> "Outlet in boot process"
      [] OTHER -> "Error"

C13_HexValue(ch) ==
    CASE ch = "0" -> 0 [] ch = "1" -> 1 [] ch = "2" -> 2 [] ch = "3" -> 3
      [] ch = "4" -> 4 [] ch = "5" -> 5 [] ch = "6" -> 6 [] ch = "7" -> 7
      [] ch = "8" -> 8 [] ch = "9" -> 9 [] ch = "A" -> 10 [] ch = "B" -> 11
      [] ch = "C" -> 12 [] ch = "D" -> 13 [] ch = "E" -> 14 [] ch = "F" -> 15
      [] OTHER -> -1

C13_StatusTextTotal ==
    op = "read_metrics" =>
        /\ Len(got) = 9 => result = "ok"
        /\ result = "ok" =>
            LET c == words[3][1]
                t == ret[1].status_text
            IN  IF c \in {160, 161, 162, 176, 177, 178, 179, 194, 224, 226} \cup (240..255)
                THEN t.known /\ t.text = C13_TableText(c)
                ELSE /\ ~t.known
                     /\ t.text = "Unknown"
                     /\ Len(t.hex) = 4
                     /\ \A i \in 1..4 : C13_HexValue(t.hex[i]) \in 0..15
                     /\ 4096 * C13_HexValue(t.hex[1]) + 256 * C13_HexValue(t.hex[2])
                          + 16 * C13_HexValue(t.hex[3]) + C13_HexValue(t.hex[4]) = c

C13_Witness ==
    /\ op = "read_metrics" /\ result = "ok"
    /\ words[3] = << 153 >>
    /\ ret[1].status_text.hex = << "0", "0", "9", "9" >>

(***************************************************************************)
(* C14: a 2-register read decodes to (hi << 16) | lo with the first        *)
(* register as the high half, and splitting the value as raw >> 16 and     *)
(* raw & 0xFFFF and decoding again recovers it.                            *)
(***************************************************************************)
C14_Decode32 ==
    op = "read_metrics" =>
        \A i \in {8, 9} :
            i <= Len(got) =>
                LET hi == words[i][1]
                    lo == words[i][2]
                    raw == got[i]
                IN  /\ raw = hi * 65536 + lo
                    /\ raw \div 65536 = hi
                    /\ raw % 65536 = lo
                    /\ U32(raw \div 65536, raw % 65536) = raw

C14_Witness ==
    /\ op = "read_metrics" /\ Len(got) = 9
    /\ words[8] = << 32767, 65535 >> /\ got[8] = 2147483647
    /\ words[9] = << 1, 2 >> /\ got[9] = 65538

(***************************************************************************)
(* C15: a 6-register read decodes the register pairs (0,1), (2,3), (4,5),  *)
(* each high word first, to L1, L2, L3 in that order, and the snapshot's   *)
(* phase currents and phase voltages keep that order.                      *)
(***************************************************************************)
C15_Pair(w, k) == w[2 * k - 1] * 65536 + w[2 * k]

C15_TripletOrder ==
    op = "read_metrics" =>
        /\ \A i \in {6, 7} :
              i <= Len(got) => \A k \in 1..3 : got[i][k] = C15_Pair(words[i], k)
        /\ result = "ok" =>
              \A k \in 1..3 :
                  /\ ret[1].phase_currents[k] = Float(C15_Pair(words[6], k), 10)
                  /\ ret[1].phase_voltages[k] = Float(C15_Pair(words[7], k), 10)

C15_Witness ==
    /\ op = "read_metrics" /\ result = "ok"
    /\ words[6] = << 1, 0, 2, 0, 3, 0 >>
    /\ words[7] = << 0, 1, 0, 2, 0, 3 >>
    /\ ret[1].phase_currents = << Float(65536, 10), Float(131072, 10), Float(196608, 10) >>
    /\ ret[1].phase_voltages = << Float(1, 10), Float(2, 10), Float(3, 10) >>

(***************************************************************************)
(* C16: the base address of outlet n >= 1 is 0x3000 + 0x0100 * (n - 1),    *)
(* so 0x3000 for outlet 1 and 0x3100 for outlet 2, and the base address of *)
(* outlet 0 or of a negative outlet is refused with InvalidOutlet.  The    *)
(* base is observed in the address of the status read, base + 49, and a    *)
(* call reaches get_outlet_base unless its amps were refused before.       *)
(***************************************************************************)
C16_ReachesOutletBase == op = "read_metrics" \/ (op = "set_icmax" /\ ~RangeRejected(amps))

C16_OutletBase ==
    C16_ReachesOutletBase =>
        /\ outlet >= 1 =>
              /\ result # "InvalidOutlet"
              /\ get_outlet_base(outlet) = 12288 + 256 * (outlet - 1)
              /\ Len(log) >= 3 =>
                    /\ log[3].addr - 49 = 12288 + 256 * (outlet - 1)
                    /\ outlet = 1 => log[3].addr - 49 = 12288
                    /\ outlet = 2 => log[3].addr - 49 = 12544
        /\ outlet < 1 => result = "InvalidOutlet" /\ log = << >> /\ pc = "done"

C16_Witness ==
    /\ op = "read_metrics" /\ outlet = 2 /\ Len(log) >= 3
    /\ log[3].addr = 12544 + 49

(***************************************************************************)
(* C17: in a returned snapshot every field is the value read from its own  *)
(* register with its own scale: the four 16-bit currents / 10, each phase  *)
(* current and phase voltage / 10, the power / 1000, the energy / 100; the *)
(* status code is the status word read and the outlet the one requested.   *)
(* C17_Value(a) is the value returned by the read of address a.            *)
(***************************************************************************)
C17_Value(a) == got[CHOOSE i \in 1..Len(log) : log[i].kind = "read" /\ log[i].addr = a]

C17_FieldsFromOwnReads ==
    (op = "read_metrics" /\ result = "ok") =>
        LET base == 12288 + 256 * (outlet - 1)
            s == ret[1]
        IN  /\ Len(ret) = 1
            /\ s.outlet = outlet
            /\ s.status_code = C17_Value(base + 49)
            /\ s.ic_amps = Float(C17_Value(base + 51), 10)
            /\ s.icmax_amps = Float(C17_Value(base + 50), 10)
            /\ s.idefault_amps = Float(C17_Value(256 + 36), 10)
            /\ s.irated_amps = Float(C17_Value(256 + 35), 10)
            /\ \A k \in 1..3 :
                  /\ s.phase_currents[k] = Float(C17_Value(base + 1)[k], 10)
                  /\ s.phase_voltages[k] = Float(C17_Value(base + 7)[k], 10)
            /\ s.power_kw = Float(C17_Value(base + 13), 1000)
            /\ s.energy_kwh = Float(C17_Value(base + 15), 100)

C17_Witness ==
    /\ op = "read_metrics" /\ result = "ok" /\ outlet = 2
    /\ got[1] = 320 /\ ret[1].irated_amps = Float(320, 10)
    /\ got[2] = 160 /\ ret[1].idefault_amps = Float(160, 10)
    /\ got[4] = 160 /\ ret[1].icmax_amps = Float(160, 10)
    /\ got[5] = 0 /\ ret[1].ic_amps = Float(0, 10)
    /\ got[8] = 1500 /\ ret[1].power_kw = Float(1500, 1000)
    /\ got[9] = 65538 /\ ret[1].energy_kwh = Float(65538, 100)
    /\ ret[1].status_code = 194

(***************************************************************************)
(* C18: the transport operations of a set_icmax call start with single-    *)
(* register reads of the rated capacity, the installation default limit,   *)
(* the status, the max-current setting and the actual current, in that     *)
(* order; a write is issued only after all five succeeded and is the sixth *)
(* operation; a failed context read is the call's last operation, the call *)
(* ends with CommunicationFailure and there is no write.                   *)
(***************************************************************************)
C18_Expected(o) ==
    LET base == 12288 + 256 * (o - 1)
    IN  << 256 + 35, 256 + 36, base + 49, base + 50, base + 51 >>

C18_ContextReadsFirst ==
    op = "set_icmax" =>
        /\ \A i \in 1..Len(log) :
              /\ i <= 5 =>
                    /\ log[i].kind = "read" /\ log[i].count = 1
                    /\ log[i].addr = C18_Expected(outlet)[i]
                    /\ ~log[i].ok =>
                          /\ i = Len(log)
                          /\ pc = "done" /\ result = "CommunicationFailure"
                          /\ NumWrites = 0
              /\ i = 6 => log[i].kind = "write"
              /\ log[i].kind = "write" =>
                    /\ i >= 6
                    /\ \A j \in 1..5 : log[j].ok
                    /\ Len(got) >= 5
        /\ pc \in {"write", "readback", "retry_write", "retry_readback"} =>
              Len(got) >= 5 /\ \A j \in 1..5 : log[j].kind = "read" /\ log[j].ok

C18_Witness ==
    /\ op = "set_icmax" /\ outlet = 2 /\ Len(log) >= 6
    /\ log[6].kind = "write" /\ log[6].ok
    /\ \A j \in 1..5 : log[j].kind = "read" /\ log[j].ok

(***************************************************************************)
(* C19: in a set_icmax call every write of the max-current register that   *)
(* returns is followed by the settle sleep of 0.5 (5 tenths) and then, as  *)
(* the next transport operation, by the read of the register written; a    *)
(* read-back is always directly preceded by that sleep and the write       *)
(* before it; the second write is directly preceded by the pause of 0.2    *)
(* (2 tenths), which follows the first read-back.                          *)
(***************************************************************************)
C19_IsSleep(e, d) == e.kind = "sleep" /\ e.value = d

C19_SettleBeforeReadBack ==
    op = "set_icmax" =>
        \A i \in 1..Len(log) :
            /\ (log[i].kind = "write" /\ log[i].ok) =>
                  /\ i + 1 <= Len(log) /\ C19_IsSleep(log[i + 1], 5)
                  /\ i + 2 <= Len(log) =>
                        log[i + 2].kind = "read" /\ log[i + 2].addr = log[i].addr
                  /\ log[i].addr = 12288 + 256 * (outlet - 1) + 50
            /\ (log[i].kind = "write" /\ ~log[i].ok) => i = Len(log)
            /\ (log[i].kind = "read" /\ i > 5) =>
                  /\ C19_IsSleep(log[i - 1], 5)
                  /\ log[i - 2].kind = "write" /\ log[i - 2].ok
                  /\ log[i - 2].addr = log[i].addr
            /\ (log[i].kind = "write" /\ i > 6) =>
                  /\ C19_IsSleep(log[i - 1], 2)
                  /\ log[i - 2].kind = "read" /\ log[i - 2].ok
            /\ log[i].kind = "sleep" => i > 6

C19_Witness ==
    /\ op = "set_icmax" /\ Len(log) = 12
    /\ log[6].kind = "write" /\ C19_IsSleep(log[7], 5) /\ log[8].kind = "read"
    /\ C19_IsSleep(log[9], 2)
    /\ log[10].kind = "write" /\ C19_IsSleep(log[11], 5) /\ log[12].kind = "read"

(***************************************************************************)
(* C20: the operations of every set_icmax call are a prefix of five        *)
(* context reads, write, settle, read-back and, optionally, pause, write,  *)
(* settle, read-back; the call always ends; it ends with a confirmed value *)
(* after a read-back, or as Failed by a validation failure (OutOfRange,    *)
(* InvalidOutlet) before any operation, by the bound failure after the     *)
(* context read or by a communication failure; and it issues at most seven *)
(* reads and two writes.                                                   *)
(***************************************************************************)
C20_Path ==
    << "read", "read", "read", "read", "read", "write", "sleep", "read",
       "sleep", "write", "sleep", "read" >>

C20_OnPath ==
    /\ Len(log) <= Len(C20_Path)
    /\ \A i \in 1..Len(log) : log[i].kind = C20_Path[i]
    /\ NumReads <= 7 /\ NumWrites <= 2
    /\ result = "ok" => pc = "done" /\ Len(log) \in {8, 12} /\ Len(ret) = 1
    /\ result \in {"OutOfRange", "InvalidOutlet"} => log = << >>
    /\ result = "ExceedsInstallationLimit" => Len(log) = 5

C20_Ended ==
    pc = "done" =>
        result \in {"ok", "OutOfRange", "InvalidOutlet", "ExceedsInstallationLimit",
                    "CommunicationFailure"}

C20_Terminates == [](op = "set_icmax" => <>(pc = "done"))

C20_PathTerminates ==
    /\ [](op = "set_icmax" => C20_OnPath /\ C20_Ended)
    /\ C20_Terminates

\* what holds of every call, the conversion's ValueError counted as an end
C20_PathTerminatesOrValueError ==
    /\ [](op = "set_icmax" => C20_OnPath /\ (C20_Ended \/ result = "ValueError"))
    /\ [](result = "ValueError" => amps.nan /\ Len(log) = 5)
    /\ C20_Terminates

(***************************************************************************)
(* C21: every write a call issues is a set_icmax write of one register     *)
(* value to the max-current register of the requested outlet, at           *)
(* 0x3000 + 0x0100 * (outlet - 1) + 0x32; read_metrics issues no write.    *)
(***************************************************************************)
C21_OnlyIcmaxWritten ==
    /\ \A i \in 1..Len(log) :
          log[i].kind = "write" =>
              /\ op = "set_icmax"
              /\ log[i].addr = 12288 + 256 * (outlet - 1) + 50
              /\ log[i].count = 1
    /\ op = "read_metrics" => NumWrites = 0
    /\ op = "none" => log = << >>

C21_Witness ==
    /\ op = "set_icmax" /\ outlet = 2 /\ NumWrites = 2
    /\ log[6].kind = "write" /\ log[6].addr = 12594
    /\ log[10].kind = "write" /\ log[10].addr = 12594

(***************************************************************************)
(* C23, as stated: a set_icmax call that ends in a failure has issued no   *)
(* write.                                                                  *)
(***************************************************************************)
C23_FailedCallNoWrite ==
    (op = "set_icmax" /\ pc = "done" /\ result # "ok") => NumWrites = 0

(***************************************************************************)
(* C23, amended: a set_icmax call that fails in validation, in the context *)
(* read, in the bound check or in the conversion has issued no write; a    *)
(* call that fails later fails with CommunicationFailure in a write or in  *)
(* a read-back and has issued one or two writes.                           *)
(***************************************************************************)
C23_NoWriteUnlessFailedAfterContext ==
    (op = "set_icmax" /\ result \notin {"ok", "none"}) =>
        /\ pc = "done"
        /\ result # "CommunicationFailure" => NumWrites = 0
        /\ Len(got) < 5 => NumWrites = 0
        /\ (result = "CommunicationFailure" /\ Len(got) >= 5) =>
              /\ NumWrites \in {1, 2}
              /\ ~log[Len(log)].ok
              /\ log[Len(log)].addr = get_outlet_base(outlet) + ICMAX_OFFSET

C23_Witness ==
    /\ op = "set_icmax" /\ pc = "done" /\ result = "CommunicationFailure"
    /\ Len(log) = 8
    /\ log[6].kind = "write" /\ log[6].ok
    /\ log[8].kind = "read" /\ ~log[8].ok

(***************************************************************************)
(* C24: whenever the first read-back of a set_icmax call returns the raw   *)
(* value that was written, the call issues exactly one write, does not     *)
(* retry, and returns a confirmed value equal to the requested amps, for   *)
(* every accepted amps and every pre-write status.                         *)
(***************************************************************************)
C24_StoredValueConfirmed ==
    (op = "set_icmax" /\ Len(got) >= 6 /\ got[6] = icmax_raw) =>
        /\ pc = "done" /\ result = "ok"
        /\ NumWrites = 1 /\ Len(got) = 6
        /\ FEq(ret[1], amps)

\* the same for the requests that are a whole number of tenths of an ampere
C24_WholeTenths == FEq(Div(icmax_raw, 10), amps)
C24_StoredValueConfirmedForTenths ==
    (op = "set_icmax" /\ Len(got) >= 6 /\ ~C24_WholeTenths) \/ C24_StoredValueConfirmed

(***************************************************************************)
(* C25: every register a call passes to the transport, from the first to   *)
(* the last register of each read and the register of each write, has an   *)
(* address within 0..65535, for every outlet >= 1.                         *)
(***************************************************************************)
C25_AddressesIn16Bits ==
    \A i \in 1..Len(log) :
        log[i].kind \in {"read", "write"} =>
            log[i].addr >= 0 /\ log[i].addr + log[i].count - 1 <= 65535

\* the same for the outlets whose block of registers ends within 16 bits
C25_AddressesIn16BitsUpTo208 == outlet > 208 \/ C25_AddressesIn16Bits

(***************************************************************************)
(* C26: the driver holds a handle only for an open connection, so after a  *)
(* connect that failed and after disconnect self.client is None, and a     *)
(* call made then fails at the guard on self.client with no transport      *)
(* operation.                                                              *)
(***************************************************************************)
C26_HandleOnlyWhenEstablished ==
    /\ client = "Client" => established
    /\ (~established /\ op # "none") =>
          /\ log = << >>
          /\ pc = "done" =>
                result \in {"CommunicationFailure", "OutOfRange", "InvalidOutlet"}

\* the part about disconnect: without a handle no transport operation is made
C26_NoHandleNoTransport ==
    (client = "None" /\ op # "none") =>
        /\ ~established
        /\ log = << >>
        /\ pc = "done" =>
              result \in {"CommunicationFailure", "OutOfRange", "InvalidOutlet"}

(***************************************************************************)
(* C27: whatever connect and disconnect calls are made on the driver, at   *)
(* most one transport connection is open at any time.                      *)
(***************************************************************************)
OpenConnections == (IF established THEN 1 ELSE 0) + orphans

C27_AtMostOneConnection == OpenConnections <= 1

\* the part that holds: disconnect closes the connection of the handle held
C27_ClosedAfterDisconnect == client = "None" => ~established

(***************************************************************************)
(* C22: in the live monitor the register operations of a quick set and of  *)
(* a metrics read never interleave: a quick set starts only where the      *)
(* monitor looks for a key, after a read_metrics call has returned and     *)
(* with no call running, and a read_metrics call starts only with no call  *)
(* running, so after the quick set has ended in success or in error.       *)
(***************************************************************************)
C22_OneCallAtATime ==
    /\ ipc = "quick" => op = "set_icmax"
    /\ ipc = "monitor" => op \in {"none", "read_metrics"}
    /\ ipc = "keys" => op = "none" /\ pc = "idle" /\ log = << >>
    /\ op = "none" => pc = "idle" /\ log = << >>

C22_QuickSetStartsAfterRead ==
    (ipc' = "quick" /\ ipc # "quick") =>
        /\ ipc = "keys" /\ op = "none" /\ pc = "idle"
        /\ op' = "set_icmax" /\ log' = << >>

C22_ReadStartsAfterQuickSet ==
    (op' = "read_metrics" /\ op # "read_metrics") =>
        /\ ipc = "monitor" /\ op = "none" /\ pc = "idle"
        /\ log' = << >>

C22_KeysOnlyAfterCompletedRead ==
    (ipc' = "keys" /\ ipc # "keys") =>
        /\ ipc = "monitor" /\ op = "read_metrics" /\ pc = "done" /\ result = "ok"
        /\ Len(got) = 9

C22_NoInterleaving ==
    /\ []C22_OneCallAtATime
    /\ [][C22_QuickSetStartsAfterRead]_vars
    /\ [][C22_ReadStartsAfterQuickSet]_vars
    /\ [][C22_KeysOnlyAfterCompletedRead]_vars

C22_Witness ==
    /\ ipc = "quick" /\ op = "set_icmax" /\ os_name = "nt"
    /\ pc = "readback" /\ NumWrites = 1 /\ NumReads = 5

(***************************************************************************)
(* C28: in the live monitor the connected flag is cleared, and the polling *)
(* stopped, only when a transport operation of read_metrics fails; on      *)
(* every platform an iteration whose read_metrics returned and in which no *)
(* key was pressed leaves the flag set and goes on to the next poll.       *)
(***************************************************************************)
C28_InMonitor == ipc \in {"monitor", "keys", "quick"}

C28_Step ==
    /\ (C28_InMonitor /\ connected /\ ~connected') =>
          ipc = "monitor" /\ pc = "done" /\ result = "CommunicationFailure"
    /\ (C28_InMonitor /\ ipc' = "menu") =>
          \/ ipc = "monitor" /\ pc = "done" /\ result = "CommunicationFailure"
          \/ ipc = "keys" /\ os_name = "nt" /\ connected'
    /\ ipc = "keys" => connected' /\ ipc' \in {"keys", "monitor", "quick", "menu"}

C28_ClearedOnlyByFailedRead == [][C28_Step]_vars

\* the same on Windows alone
C28_ClearedOnlyByFailedReadOnWindows == [][os_name = "nt" => C28_Step]_vars

(***************************************************************************)
(* C29: in the menu's set action a validation or bound failure of          *)
(* client.set_icmax leaves the connected flag set, a communication failure *)
(* clears it, and with the flag cleared the action makes no call, so no    *)
(* transport operation.                                                    *)
(***************************************************************************)
C29_SetRuns == ipc = "set" => (connected /\ op = "set_icmax")

C29_Handled ==
    (ipc = "set" /\ ipc' = "menu") =>
        /\ pc = "done"
        /\ result \in {"InvalidOutlet", "OutOfRange", "ExceedsInstallationLimit"} =>
              connected' /\ connected
        /\ result = "CommunicationFailure" => ~connected'
        /\ result = "ok" => connected'

C29_NoCallWhenCleared ==
    (ipc = "menu" /\ ~connected) => (ipc' # "set" /\ op' = "none" /\ log' = << >>)

C29_FlagAfterSet ==
    /\ []C29_SetRuns
    /\ [][C29_Handled]_vars
    /\ [][C29_NoCallWhenCleared]_vars

C29_Witness ==
    /\ ipc = "set" /\ pc = "done" /\ connected
    /\ result = "ExceedsInstallationLimit" /\ NumReads = 5 /\ NumWrites = 0

(***************************************************************************)
(* C30: once the interface has exited, no transport connection opened      *)
(* during the session is still open, whatever menu actions came before.    *)
(***************************************************************************)
C30_NothingOpenAfterExit == ipc = "exited" => OpenConnections = 0

\* the part that holds: the cleanup closes the connection of the handle held
\* when the flag is still set
C30_ClosedWhenFlagSet == (ipc = "exited" /\ connected) => (client = "None" /\ ~established)

====
